---- MODULE Spec2Model ----
(***************************************************************************)
(* Verification model of the CRE incentive analysis engine:                *)
(*   - CacheManager            (services/utils/cache.js)                   *)
(*   - CREIncentivesService    (services/CREIncentivesService.js)          *)
(*   - usePropertyAnalysis     (hooks/usePropertyAnalysis.js)              *)
(* Each component has its own specification (SpecCache, SpecOrch,          *)
(* SpecHook); the variables of the other components stay at their initial  *)
(* values.                                                                 *)
(***************************************************************************)
EXTENDS Integers, Sequences, FiniteSets, TLC

\* ------------------------------------------------------------------------
\* Bounds
\* ------------------------------------------------------------------------
NumKeys == 4
MaxTTL == 1
MaxTime == 2
MaxCalls == 3
MaxAddressLen == 5
MaxBusinessAge == 3
MaxJobs == 2
MaxProjectCost == 3
MaxReports == 1
MaxRequests == 3
MaxTicks == 4
NumSweepKeys == 3

Keys == 1..NumKeys
TTLs == 1..MaxTTL

\* null of get(), and "no key"
Null == 0
NoKey == 0

VARIABLES
  cache,      \* CacheManager.cache: the Map, as the sequence of its entries in iteration order
  now,        \* Date.now()
  last,       \* the operation that produced the current state, and what it returned
  recency,    \* keys of the store, least recently used first: order of entering
              \* the store, refreshed by every get that returned a value
  opc,        \* CREIncentivesService.analyzeProperty: position of the call
  oaddr,      \* the address argument of the call
  ev,         \* the five evaluator promises of the call
  result,     \* what the call returned or threw
  geocodeCalls,  \* invocations of geocodeAddress made by the call
  loading,    \* usePropertyAnalysis: the loading state
  error,      \* the error state: 0 (null) or the call whose failure is stored
  analysis,   \* the analysis state: 0 (null) or the call whose result is stored
  report,     \* the report state: 0 (null)
  history,    \* the history state: calls whose results were added, newest first
  abortControllerRef,  \* abortControllerRef.current: 0 (null) or the call that created it
  aborted,    \* signal.aborted of the controller created by each call
  hcall,      \* position of each analyzeProperty call of the hook
  rcall,      \* the analysisToUse of each generateReport call awaiting the service
  thrown,     \* what the generateReport promise settled last rejected with
  address,    \* validateAddress: the address argument, a string as its characters
  validation, \* what validateAddress(address) returned
  renormalized,  \* normalizeAddress applied to the normalized address
  businessInfo,  \* SBAService.assessSBA504Eligibility: its argument
  sbaAssessment, \* what assessSBA504Eligibility(businessInfo) returned
  businessData,  \* SBA504Service.performEligibilityChecks: the validated business data
  sbaChecks,     \* what performEligibilityChecks(businessData) returned
  projections,   \* what generateFinancialProjections returned for the analysis
  clock,         \* Date.now(), in milliseconds
  rateLimit,     \* this.rateLimit.get(this.baseURL) of one service: 0 is undefined
  requests       \* each makeRequest call of the service: its position, the now it
                 \* read, the time its fetch started and how it ended

cacheVars == <<cache, now, last, recency>>

orchVars == <<opc, oaddr, ev, result, geocodeCalls>>

hookVars == <<loading, error, analysis, report, history, abortControllerRef, aborted, hcall,
              rcall, thrown>>

validationVars == <<address, validation, renormalized>>

\* the state of the utilities and services that the cache, the orchestrator
\* and the hook do not write
sbaVars == <<businessInfo, sbaAssessment>>

sba504Vars == <<businessData, sbaChecks>>

reportVars == <<projections>>

rateVars == <<clock, rateLimit, requests>>

auxVars == <<validationVars, sbaVars, sba504Vars, reportVars, rateVars>>

coreVars == <<cacheVars, orchVars, hookVars>>

vars == <<cache, now, last, recency, opc, oaddr, ev, result, geocodeCalls,
          loading, error, analysis, report, history, abortControllerRef, aborted, hcall,
          rcall, thrown, address, validation, renormalized,
          businessInfo, sbaAssessment, businessData, sbaChecks, projections,
          clock, rateLimit, requests>>

\* ------------------------------------------------------------------------
\* CacheManager (services/utils/cache.js)
\* ------------------------------------------------------------------------

\* this.maxSize: 1000 in the source, scaled down to 3 entries
maxSize == 3

\* Map.prototype.has / get / delete / set on the sequence of entries
KeysOf(c) == {c[i].key : i \in 1..Len(c)}

IndexOf(c, k) == CHOOSE i \in 1..Len(c) : c[i].key = k

MapGet(c, k) == c[IndexOf(c, k)]

MapDelete(c, k) == SelectSeq(c, LAMBDA e : e.key # k)

\* Map.set keeps the position of a key that is present and appends a new key
MapSet(c, k, item) ==
  IF k \in KeysOf(c)
    THEN [i \in 1..Len(c) |-> IF c[i].key = k THEN item ELSE c[i]]
    ELSE Append(c, item)

\* get(): if (Date.now() > item.expiresAt)
ExpiredLate(item, t) == t > item.expiresAt + 1
ExpiredNever(item, t) == FALSE
Expired(item, t) == t > item.expiresAt

\* set(): if (this.cache.size >= this.maxSize) delete this.cache.keys().next().value
FirstKeyEvictLast(c) == IF Len(c) >= maxSize THEN c[Len(c)].key ELSE NoKey
FirstKeyEvictAbove(c) == IF Len(c) > maxSize THEN c[1].key ELSE NoKey
FirstKey(c) == IF Len(c) >= maxSize THEN c[1].key ELSE NoKey

EvictIfFull(c) == IF FirstKey(c) # NoKey THEN MapDelete(c, FirstKey(c)) ELSE c

Found(c, k, t) ==
  IF k \notin KeysOf(c) THEN "absent"
  ELSE IF Expired(MapGet(c, k), t) THEN "expired" ELSE "live"

Without(s, k) == SelectSeq(s, LAMBDA x : x # k)

LastRec(op, k, ret, evicted, found) ==
  [op |-> op, key |-> k, ret |-> ret, evicted |-> evicted, found |-> found]

\* set(key, value, ttl)
Set(k, v, ttl) ==
  LET evicted == FirstKey(cache)
      c1 == EvictIfFull(cache)
      item == [key |-> k, value |-> v, expiresAt |-> now + ttl, createdAt |-> now]
      r1 == IF evicted # NoKey THEN Without(recency, evicted) ELSE recency
  IN /\ cache' = MapSet(c1, k, item)
     /\ recency' = IF k \in KeysOf(c1) THEN r1 ELSE Append(r1, k)
     /\ last' = LastRec("set", k, Null, evicted, Found(cache, k, now))
     /\ UNCHANGED <<now, orchVars, hookVars, auxVars>>

\* the state change and the returned value of get(key)
GetCacheKeepExpired(c, k, t) ==
  IF k \notin KeysOf(c) THEN c
  ELSE IF Expired(MapGet(c, k), t) THEN c
  ELSE MapSet(MapDelete(c, k), k, MapGet(c, k))
GetCache(c, k, t) ==
  IF k \notin KeysOf(c) THEN c
  ELSE IF Expired(MapGet(c, k), t) THEN MapDelete(c, k)
  ELSE MapSet(MapDelete(c, k), k, MapGet(c, k))

GetRet(c, k, t) ==
  IF k \notin KeysOf(c) THEN Null
  ELSE IF Expired(MapGet(c, k), t) THEN Null
  ELSE MapGet(c, k).value

GetRecency(r, c, k, t) ==
  IF k \notin KeysOf(c) THEN r
  ELSE IF GetRet(c, k, t) = Null THEN Without(r, k)
  ELSE Append(Without(r, k), k)

\* get(key)
Get(k) ==
  /\ cache' = GetCache(cache, k, now)
  /\ recency' = GetRecency(recency, cache, k, now)
  /\ last' = LastRec("get", k, GetRet(cache, k, now), NoKey, Found(cache, k, now))
  /\ UNCHANGED <<now, orchVars, hookVars, auxVars>>

\* has(key): this.get(key) !== null
Has(k) ==
  /\ cache' = GetCache(cache, k, now)
  /\ recency' = GetRecency(recency, cache, k, now)
  /\ last' = LastRec("has", k, IF GetRet(cache, k, now) # Null THEN 1 ELSE 0,
                     NoKey, Found(cache, k, now))
  /\ UNCHANGED <<now, orchVars, hookVars, auxVars>>

\* delete(key)
Delete(k) ==
  /\ cache' = MapDelete(cache, k)
  /\ recency' = Without(recency, k)
  /\ last' = LastRec("delete", k, IF k \in KeysOf(cache) THEN 1 ELSE 0,
                     NoKey, Found(cache, k, now))
  /\ UNCHANGED <<now, orchVars, hookVars, auxVars>>

\* clear()
Clear ==
  /\ cache' = <<>>
  /\ recency' = <<>>
  /\ last' = LastRec("clear", NoKey, 0, NoKey, "absent")
  /\ UNCHANGED <<now, orchVars, hookVars, auxVars>>

\* cleanup(): delete every entry with now > expiresAt, return their number;
\* also the body of the setInterval callback installed by startCleanup()
CleanupLate ==
  LET keysToDelete == {cache[i].key : i \in {j \in 1..Len(cache) : now > cache[j].expiresAt + 1}}
  IN /\ cache' = SelectSeq(cache, LAMBDA e : e.key \notin keysToDelete)
     /\ recency' = SelectSeq(recency, LAMBDA x : x \notin keysToDelete)
     /\ last' = LastRec("cleanup", NoKey, Cardinality(keysToDelete), NoKey, "absent")
     /\ UNCHANGED <<now, orchVars, hookVars, auxVars>>
Cleanup ==
  LET keysToDelete == {cache[i].key : i \in {j \in 1..Len(cache) : now > cache[j].expiresAt}}
  IN /\ cache' = SelectSeq(cache, LAMBDA e : e.key \notin keysToDelete)
     /\ recency' = SelectSeq(recency, LAMBDA x : x \notin keysToDelete)
     /\ last' = LastRec("cleanup", NoKey, Cardinality(keysToDelete), NoKey, "absent")
     /\ UNCHANGED <<now, orchVars, hookVars, auxVars>>

\* the clock advances
Tick ==
  /\ now < MaxTime
  /\ now' = now + 1
  /\ last' = LastRec("tick", NoKey, 0, NoKey, "absent")
  /\ UNCHANGED <<cache, recency, orchVars, hookVars, auxVars>>

InitCache ==
  /\ cache = <<>>
  /\ now = 0
  /\ last = LastRec("init", NoKey, 0, NoKey, "absent")
  /\ recency = <<>>

NextCache ==
  \* the value written is drawn together with the ttl, so that entries written
  \* with different ttl also differ in value
  \/ \E k \in Keys, ttl \in TTLs : Set(k, ttl, ttl)
  \/ \E k \in Keys : Get(k)
  \/ \E k \in Keys : Has(k)
  \/ \E k \in Keys : Delete(k)
  \/ Clear
  \/ Cleanup
  \/ Tick

\* storing, reading and sweeping over the keys 1..NumSweepKeys, for the
\* liveness of the sweep
SweepKeys == 1..NumSweepKeys

NextSweep ==
  \/ \E k \in SweepKeys, ttl \in TTLs : Set(k, ttl, ttl)
  \/ \E k \in SweepKeys : Get(k)
  \/ Cleanup
  \/ Tick

\* ------------------------------------------------------------------------
\* CREIncentivesService.analyzeProperty (services/CREIncentivesService.js)
\* and the five evaluators it dispatches
\* ------------------------------------------------------------------------

\* the keys of analysis.incentives
ProgramKeys == {"opportunityZones", "historicTaxCredits", "newMarketsTC", "cpace", "sba504"}

\* the address arguments tried: a non-string, "", "   ", "12345",
\* "Main Street" and "12 Main Street"
Addresses == {"notString", "empty", "blank", "noLetters", "noDigit", "ok"}

\* analyzeProperty: !address || typeof address !== 'string'
OrchRejectsNonString(a) == a = "notString"
OrchRejectsAddress(a) == a \in {"notString", "empty"}

\* validateAddress(address).isValid of utils/validation.js, on strings
IsValidAddress(a) == a \notin {"notString", "empty", "blank", "noLetters"}

\* evaluators that resolve a census tract after geocoding
UsesTract(k) == k \in {"opportunityZones", "newMarketsTC"}

NoPayload == [none |-> TRUE]

\* benefits: eligible ? this.get...Benefits() : null
Benefits(b) == IF b THEN "benefits" ELSE "null"

\* the payload an evaluator returns, b the outcome of its eligibility rules
Payload(k, b) ==
  CASE k = "opportunityZones" ->
         [program |-> k, isOpportunityZone |-> b, benefits |-> Benefits(b)]
    [] k = "historicTaxCredits" ->
         [program |-> k, federalHTC |-> [eligible |-> b, benefits |-> Benefits(b)]]
    [] k = "newMarketsTC" -> [program |-> k, nmtcEligible |-> b, benefits |-> Benefits(b)]
    [] k = "cpace" -> [program |-> k, cpaceAvailable |-> b, benefits |-> Benefits(b)]
    [] OTHER -> [program |-> k, eligible |-> b, benefits |-> Benefits(b)]

Promise(pc, payload, msg) == [pc |-> pc, payload |-> payload, msg |-> msg]

NotStarted == Promise("notStarted", NoPayload, "none")

\* the synchronous head of an evaluator: this.validateAddress(address) throws
\* inside the async function, or the evaluator suspends on geocodeAddress
Launch(k, a) ==
  IF IsValidAddress(a)
    THEN Promise("geocode", NoPayload, "none")
    ELSE Promise("rejected", NoPayload, "Invalid address")

\* each evaluator that passed validation has called this.geocodeAddress(normalized),
\* which issues its own fetch
GeocodeInvocations(e) == Cardinality({k \in ProgramKeys : e[k].pc = "geocode"})

Settled(p) == p.pc \in {"fulfilled", "rejected"}

\* Promise.allSettled resolves when every promise has settled
PromiseAllReady(e) ==
  \/ \A k \in ProgramKeys : e[k].pc = "fulfilled"
  \/ \E k \in ProgramKeys : e[k].pc = "rejected"
AllSettledReady(e) == \A k \in ProgramKeys : Settled(e[k])

\* the destructuring of the settled array into the arguments of processResult
ResultOfSwapped(e, k) ==
  IF k = "historicTaxCredits" THEN e["newMarketsTC"]
  ELSE IF k = "newMarketsTC" THEN e["historicTaxCredits"]
  ELSE e[k]
ResultOf(e, k) == e[k]

\* determineAvailability(data, programName)
DetermineAvailabilityIfFulfilled(data, k) == TRUE
DetermineAvailability(data, k) ==
  CASE k = "opportunityZones" ->
         IF "isOpportunityZone" \in DOMAIN data THEN data.isOpportunityZone ELSE FALSE
    [] k = "historicTaxCredits" ->
         IF "federalHTC" \in DOMAIN data THEN data.federalHTC.eligible ELSE FALSE
    [] k = "newMarketsTC" ->
         IF "nmtcEligible" \in DOMAIN data THEN data.nmtcEligible ELSE FALSE
    [] k = "cpace" ->
         IF "cpaceAvailable" \in DOMAIN data THEN data.cpaceAvailable ELSE FALSE
    [] k = "sba504" ->
         IF "eligible" \in DOMAIN data THEN data.eligible ELSE FALSE
    [] OTHER -> FALSE

\* processResult(result, programName)
ProcessResult(p, k) ==
  IF p.pc = "fulfilled"
    THEN [status |-> "success", data |-> p.payload,
          available |-> DetermineAvailability(p.payload, k), error |-> "none"]
    ELSE [status |-> "error", data |-> NoPayload, available |-> FALSE, error |-> p.msg]

NoIncentives == [k \in {} |-> 0]

\* analysis.incentives: one processResult per program key
IncentivesOfFulfilled(e) ==
  [k \in {j \in ProgramKeys : e[j].pc = "fulfilled"} |-> ProcessResult(ResultOf(e, k), k)]
Incentives(e) == [k \in ProgramKeys |-> ProcessResult(ResultOf(e, k), k)]

\* the keys of analysis.incentives in the order of Object.entries
KeyOrder == <<"opportunityZones", "historicTaxCredits", "newMarketsTC", "cpace", "sba504">>

\* Object.entries(incentives).filter(([, program]) => program.available).map(([key]) => key)
Available(inc) == SelectSeq(KeyOrder, LAMBDA k : k \in DOMAIN inc /\ inc[k].available)

Includes(seq, x) == \E i \in 1..Len(seq) : seq[i] = x

Recommendation(priority, program, action) ==
  [priority |-> priority, program |-> program, action |-> action]

\* the recommendation pushed for each available program, in the order of the
\* five if statements of generateRecommendations
ProgramRecommendations(avail) ==
  (IF Includes(avail, "opportunityZones")
     THEN <<Recommendation("High", "Opportunity Zones",
                           "Structure investment through Qualified Opportunity Fund")>>
     ELSE <<>>)
  \o (IF Includes(avail, "historicTaxCredits")
        THEN <<Recommendation("High", "Historic Tax Credits",
                              "Apply for Part 1 certification before starting work")>>
        ELSE <<>>)
  \o (IF Includes(avail, "newMarketsTC")
        THEN <<Recommendation("Medium", "New Markets Tax Credits",
                              "Contact local CDEs for funding availability")>>
        ELSE <<>>)
  \o (IF Includes(avail, "sba504")
        THEN <<Recommendation("Medium", "SBA 504 Loans",
                              "Contact Certified Development Company")>>
        ELSE <<>>)
  \o (IF Includes(avail, "cpace")
        THEN <<Recommendation("Low", "C-PACE Financing",
                              "Conduct energy audit to identify eligible improvements")>>
        ELSE <<>>)

\* if (recommendations.length === 0) recommendations.push({... 'Alternative Financing' ...})
WithFallbackAlways(recs) ==
  Append(recs, Recommendation("Medium", "Alternative Financing",
                              "Explore conventional financing and local incentives"))
WithFallback(recs) ==
  IF Len(recs) = 0
    THEN <<Recommendation("Medium", "Alternative Financing",
                          "Explore conventional financing and local incentives")>>
    ELSE recs

\* const priorityOrder = { 'High': 3, 'Medium': 2, 'Low': 1 }
priorityOrder(p) == CASE p = "High" -> 3 [] p = "Medium" -> 2 [] p = "Low" -> 1

\* recommendations.sort((a, b) => priorityOrder[b.priority] - priorityOrder[a.priority]):
\* Array.prototype.sort is stable, so an element goes after the elements that
\* compare equal to it and came before it
RECURSIVE SortByPriorityTiesReversed(_)
SortByPriorityTiesReversed(recs) ==
  IF Len(recs) <= 1 THEN recs
  ELSE LET sorted == SortByPriorityTiesReversed(SubSeq(recs, 1, Len(recs) - 1))
           x == recs[Len(recs)]
           n == Cardinality({i \in 1..Len(sorted) :
                  priorityOrder(sorted[i].priority) > priorityOrder(x.priority)})
       IN SubSeq(sorted, 1, n) \o <<x>> \o SubSeq(sorted, n + 1, Len(sorted))
RECURSIVE SortByPriority(_)
SortByPriority(recs) ==
  IF Len(recs) <= 1 THEN recs
  ELSE LET sorted == SortByPriority(SubSeq(recs, 1, Len(recs) - 1))
           x == recs[Len(recs)]
           n == Cardinality({i \in 1..Len(sorted) :
                  priorityOrder(sorted[i].priority) >= priorityOrder(x.priority)})
       IN SubSeq(sorted, 1, n) \o <<x>> \o SubSeq(sorted, n + 1, Len(sorted))

\* generateRecommendations(incentives, projectDetails)
GenerateRecommendations(inc) ==
  SortByPriority(WithFallback(ProgramRecommendations(Available(inc))))

\* getProgramName(key)
GetProgramName(k) ==
  CASE k = "opportunityZones" -> "Opportunity Zones"
    [] k = "historicTaxCredits" -> "Historic Tax Credits"
    [] k = "newMarketsTC" -> "New Markets Tax Credits"
    [] k = "cpace" -> "C-PACE"
    [] k = "sba504" -> "SBA 504"
    [] OTHER -> k

\* available.filter(p => p !== key).map(p => this.getProgramName(p))
OtherProgramNames(avail, key) ==
  LET others == SelectSeq(avail, LAMBDA p : p # key)
  IN [i \in 1..Len(others) |-> GetProgramName(others[i])]

Stacking(programs, compatibility) ==
  [programs |-> programs, compatibility |-> compatibility]

\* available.includes('cpace') && available.length > 1
CpaceStacksAlone(avail) == Includes(avail, "cpace")
CpaceStacks(avail) == Includes(avail, "cpace") /\ Len(avail) > 1

\* identifyStackingOpportunities(incentives)
IdentifyStackingOpportunities(inc) ==
  LET available == Available(inc)
  IN (IF Includes(available, "historicTaxCredits") /\ Includes(available, "opportunityZones")
        THEN <<Stacking(<<"Historic Tax Credits", "Opportunity Zones">>, "High")>>
        ELSE <<>>)
     \o (IF Includes(available, "newMarketsTC") /\ Includes(available, "historicTaxCredits")
           THEN <<Stacking(<<"New Markets Tax Credits", "Historic Tax Credits">>, "Medium")>>
           ELSE <<>>)
     \o (IF Includes(available, "sba504")
              /\ Len(SelectSeq(available, LAMBDA p : p # "sba504")) > 0
           THEN <<Stacking(<<"SBA 504">> \o OtherProgramNames(available, "sba504"), "High")>>
           ELSE <<>>)
     \o (IF CpaceStacks(available)
           THEN <<Stacking(<<"C-PACE">> \o OtherProgramNames(available, "cpace"), "High")>>
           ELSE <<>>)

\* what analyzeProperty has returned or thrown; nothing before it ends
Outcome(kind, inc, recs, stacking) ==
  [kind |-> kind, incentives |-> inc, recommendations |-> recs,
   stackingOpportunities |-> stacking]

\* analyzeProperty(address, projectDetails) up to the await of Promise.allSettled
AnalyzeProperty(a) ==
  /\ opc = "idle"
  /\ oaddr' = a
  /\ IF OrchRejectsAddress(a)
       THEN /\ opc' = "threw"
            /\ result' = Outcome("ValidationError", NoIncentives, <<>>, <<>>)
            /\ UNCHANGED <<ev, geocodeCalls>>
       ELSE /\ opc' = "waiting"
            /\ ev' = [k \in ProgramKeys |-> Launch(k, a)]
            /\ geocodeCalls' = GeocodeInvocations([k \in ProgramKeys |-> Launch(k, a)])
            /\ UNCHANGED result
  /\ UNCHANGED <<cacheVars, hookVars, auxVars>>

\* await this.geocodeAddress(normalized) returns coordinates or null
Geocode(k, found) ==
  /\ ev[k].pc = "geocode"
  /\ ev' = [ev EXCEPT ![k] =
              IF ~found THEN Promise("rejected", NoPayload, "Unable to geocode address")
              ELSE IF UsesTract(k) THEN Promise("tract", NoPayload, "none")
              ELSE Promise("rules", NoPayload, "none")]
  /\ UNCHANGED <<opc, oaddr, result, geocodeCalls, cacheVars, hookVars, auxVars>>

\* await this.getCensusTract(lat, lon) returns the tract or null
CensusTract(k, found) ==
  /\ ev[k].pc = "tract"
  /\ ev' = [ev EXCEPT ![k] =
              IF ~found THEN Promise("rejected", NoPayload, "Unable to determine census tract")
              ELSE Promise("rules", NoPayload, "none")]
  /\ UNCHANGED <<opc, oaddr, result, geocodeCalls, cacheVars, hookVars, auxVars>>

\* the fetch of geocodeAddress or getCensusTract never resolves: it is called
\* without a timeout or an abort signal, so the evaluator stays suspended
Stall(k) ==
  /\ ev[k].pc \in {"geocode", "tract"}
  /\ ev' = [ev EXCEPT ![k] = Promise("stalled", NoPayload, "none")]
  /\ UNCHANGED <<opc, oaddr, result, geocodeCalls, cacheVars, hookVars, auxVars>>

\* the remaining lookups and the eligibility rules: the evaluator returns
RulesThrowIfIneligible(k, b) ==
  /\ ev[k].pc = "rules"
  /\ ev' = [ev EXCEPT ![k] = IF b THEN Promise("fulfilled", Payload(k, b), "none")
                             ELSE Promise("rejected", NoPayload, "Not eligible")]
  /\ UNCHANGED <<opc, oaddr, result, geocodeCalls, cacheVars, hookVars, auxVars>>
Rules(k, b) ==
  /\ ev[k].pc = "rules"
  /\ ev' = [ev EXCEPT ![k] = Promise("fulfilled", Payload(k, b), "none")]
  /\ UNCHANGED <<opc, oaddr, result, geocodeCalls, cacheVars, hookVars, auxVars>>

\* the continuation after Promise.allSettled: build and return the analysis
Assemble ==
  /\ opc = "waiting"
  /\ AllSettledReady(ev)
  /\ result' = Outcome("analysis", Incentives(ev),
                        GenerateRecommendations(Incentives(ev)),
                        IdentifyStackingOpportunities(Incentives(ev)))
  /\ opc' = "returned"
  /\ UNCHANGED <<oaddr, ev, geocodeCalls, cacheVars, hookVars, auxVars>>

\* projectDetails.projectCost: undefined (0) or a number of millions
ProjectCosts == {m * 1000000 : m \in 0..MaxProjectCost}

\* the switch of calculateWithIncentives: what an available program adds to
\* taxCredits
TaxCreditOfAlsoSba(key, projectCost) ==
  CASE key = "historicTaxCredits" -> (projectCost * 20) \div 100
    [] key = "newMarketsTC" -> (((projectCost * 25) \div 100) * 39) \div 100
    [] key = "sba504" -> 50000
    [] OTHER -> 0
TaxCreditOf(key, projectCost) ==
  CASE key = "historicTaxCredits" -> (projectCost * 20) \div 100
    [] key = "newMarketsTC" -> (((projectCost * 25) \div 100) * 39) \div 100
    [] OTHER -> 0

\* and what it adds to interestSavings
InterestSavingsOf(key) ==
  CASE key = "sba504" -> 50000
    [] key = "cpace" -> 25000
    [] OTHER -> 0

\* the forEach of calculateWithIncentives over the available programs
RECURSIVE SumAvailable(_, _, _)
SumAvailable(keys, inc, amount) ==
  IF keys = <<>> THEN 0
  ELSE (IF inc[Head(keys)].available THEN amount[Head(keys)] ELSE 0)
         + SumAvailable(Tail(keys), inc, amount)

\* calculateWithIncentives(projectCost, analysis); estimatedROI in tenths of
\* a percent
CalculateWithIncentives(projectCost, inc) ==
  LET taxCredits == SumAvailable(KeyOrder, inc, [k \in ProgramKeys |-> TaxCreditOf(k, projectCost)])
      interestSavings == SumAvailable(KeyOrder, inc, [k \in ProgramKeys |-> InterestSavingsOf(k)])
  IN [projectCost |-> projectCost,
      taxCredits |-> taxCredits,
      interestSavings |-> interestSavings,
      netProjectCost |-> projectCost - taxCredits,
      estimatedROI |-> ((taxCredits + interestSavings * 10) * 2 + projectCost \div 1000)
                         \div (2 * (projectCost \div 1000))]

NoProjections ==
  [projectCost |-> 0, taxCredits |-> 0, interestSavings |-> 0, netProjectCost |-> 0,
   estimatedROI |-> 0]

\* generateFinancialProjections(analysis, projectDetails) for the returned
\* analysis: the withIncentives scenario
GenerateFinancialProjections(cost) ==
  /\ opc = "returned"
  /\ projections = NoProjections
  /\ projections' = CalculateWithIncentives(IF cost = 0 THEN 2000000 ELSE cost,
                                            result.incentives)
  /\ UNCHANGED <<validationVars, sbaVars, sba504Vars, rateVars, coreVars>>

InitReport == projections = NoProjections

InitOrch ==
  /\ opc = "idle"
  /\ oaddr = "ok"
  /\ ev = [k \in ProgramKeys |-> NotStarted]
  /\ result = Outcome("none", NoIncentives, <<>>, <<>>)
  /\ geocodeCalls = 0

NextOrch ==
  \/ \E a \in Addresses : AnalyzeProperty(a)
  \/ \E k \in ProgramKeys, found \in BOOLEAN : Geocode(k, found)
  \/ \E k \in ProgramKeys, found \in BOOLEAN : CensusTract(k, found)
  \/ \E k \in ProgramKeys : Stall(k)
  \/ \E k \in ProgramKeys, b \in BOOLEAN : Rules(k, b)
  \/ Assemble
  \/ \E cost \in ProjectCosts : GenerateFinancialProjections(cost)

\* ------------------------------------------------------------------------
\* usePropertyAnalysis (hooks/usePropertyAnalysis.js)
\* ------------------------------------------------------------------------

CallIds == 1..MaxCalls

\* ...prev.slice(0, 9)
HistoryKeep == 9

Slice(h, n) == SubSeq(h, 1, IF Len(h) < n THEN Len(h) ELSE n)

\* abortControllerRef.current.signal.aborted, read when a call resumes
SignalAborted(c) == aborted[abortControllerRef]

\* analyzeProperty(address, projectDetails) up to the await of the service call
StartAnalyze(c) ==
  /\ hcall[c] = "notStarted"
  /\ \A d \in CallIds : d < c => hcall[d] # "notStarted"
  /\ aborted' = IF abortControllerRef # 0
                  THEN [aborted EXCEPT ![abortControllerRef] = TRUE]
                  ELSE aborted
  /\ abortControllerRef' = c
  /\ loading' = TRUE
  /\ error' = 0
  /\ analysis' = 0
  /\ report' = 0
  /\ hcall' = [hcall EXCEPT ![c] = "awaiting"]
  /\ UNCHANGED <<history, rcall, thrown,
                 cacheVars, orchVars, auxVars>>

\* the service call of c resolved: the try block continues, then finally
ResolveAnalyze(c) ==
  /\ hcall[c] = "awaiting"
  /\ hcall' = [hcall EXCEPT ![c] = "settled"]
  /\ IF SignalAborted(c)
       THEN UNCHANGED <<analysis, history, loading>>
       ELSE /\ analysis' = c
            /\ history' = <<c>> \o Slice(history, HistoryKeep)
            /\ loading' = FALSE
  /\ UNCHANGED <<error, report, abortControllerRef, aborted, rcall, thrown,
                 cacheVars, orchVars, auxVars>>

\* the service call of c rejected: the catch block, then finally
RejectAnalyze(c) ==
  /\ hcall[c] = "awaiting"
  /\ hcall' = [hcall EXCEPT ![c] = "settled"]
  /\ IF SignalAborted(c)
       THEN UNCHANGED <<error, loading>>
       ELSE /\ error' = c
            /\ loading' = FALSE
  /\ UNCHANGED <<analysis, history, report, abortControllerRef, aborted, rcall, thrown,
                 cacheVars, orchVars, auxVars>>

\* cancelRequest()
CancelRequest ==
  /\ abortControllerRef # 0
  /\ aborted' = [aborted EXCEPT ![abortControllerRef] = TRUE]
  /\ loading' = FALSE
  /\ UNCHANGED <<error, analysis, report, history, abortControllerRef, hcall,
                 rcall, thrown,
                 cacheVars, orchVars, auxVars>>

\* clearError()
ClearError ==
  /\ error' = 0
  /\ UNCHANGED <<loading, analysis, report, history, abortControllerRef, aborted, hcall,
                 rcall, thrown,
                 cacheVars, orchVars, auxVars>>

\* clearResults()
ClearResults ==
  /\ analysis' = 0
  /\ report' = 0
  /\ error' = 0
  /\ UNCHANGED <<loading, history, abortControllerRef, aborted, hcall, rcall, thrown,
                 cacheVars, orchVars, auxVars>>

\* clearHistory()
ClearHistory ==
  /\ history' = <<>>
  /\ UNCHANGED <<loading, error, analysis, report, abortControllerRef, aborted, hcall,
                 rcall, thrown,
                 cacheVars, orchVars, auxVars>>

\* an analysis passed to generateReport as analysisData
ArgAnalysis == MaxCalls + 1

\* analysisData: null, or an analysis object
AnalysisDatas == {0, ArgAnalysis}

\* const analysisToUse = analysisData || analysis
AnalysisToUse(analysisData) == IF analysisData # 0 THEN analysisData ELSE analysis

\* if (!analysisToUse)
NoAnalysisNever(analysisToUse) == FALSE
NoAnalysis(analysisToUse) == analysisToUse = 0

\* formatError(err) of a failed report of analysis a
ReportError(a) == 0 - a

\* generateReport(analysisData, projectDetails) up to the await of the
\* service call, or to the throw
GenerateReport(analysisData) ==
  IF NoAnalysis(AnalysisToUse(analysisData))
    THEN /\ thrown' = "ValidationError"
         /\ UNCHANGED <<loading, error, analysis, report, history, abortControllerRef,
                        aborted, hcall, rcall, cacheVars, orchVars, auxVars>>
    ELSE /\ Len(rcall) < MaxReports
         /\ loading' = TRUE
         /\ error' = 0
         /\ rcall' = Append(rcall, AnalysisToUse(analysisData))
         /\ UNCHANGED <<analysis, report, history, abortControllerRef, aborted, hcall,
                        thrown, cacheVars, orchVars, auxVars>>

RemoveAt(q, i) == SubSeq(q, 1, i - 1) \o SubSeq(q, i + 1, Len(q))

\* generateFinancialReport resolved for the i-th waiting call: the try block
\* continues, then finally
ResolveReport(i) ==
  /\ i \in 1..Len(rcall)
  /\ report' = rcall[i]
  /\ loading' = FALSE
  /\ thrown' = "none"
  /\ rcall' = RemoveAt(rcall, i)
  /\ UNCHANGED <<error, analysis, history, abortControllerRef, aborted, hcall,
                 cacheVars, orchVars, auxVars>>

\* generateFinancialReport rejected for the i-th waiting call: the catch
\* block, then finally
RejectReport(i) ==
  /\ i \in 1..Len(rcall)
  /\ error' = ReportError(rcall[i])
  /\ loading' = FALSE
  /\ thrown' = "error"
  /\ rcall' = RemoveAt(rcall, i)
  /\ UNCHANGED <<analysis, report, history, abortControllerRef, aborted, hcall,
                 cacheVars, orchVars, auxVars>>

InitHook ==
  /\ rcall = <<>>
  /\ thrown = "none"
  /\ loading = FALSE
  /\ error = 0
  /\ analysis = 0
  /\ report = 0
  /\ history = <<>>
  /\ abortControllerRef = 0
  /\ aborted = [c \in CallIds |-> FALSE]
  /\ hcall = [c \in CallIds |-> "notStarted"]

NextHook ==
  \/ \E c \in CallIds : StartAnalyze(c)
  \/ \E c \in CallIds : ResolveAnalyze(c)
  \/ \E c \in CallIds : RejectAnalyze(c)
  \/ CancelRequest
  \/ ClearError
  \/ ClearResults
  \/ ClearHistory
  \/ \E analysisData \in AnalysisDatas : GenerateReport(analysisData)
  \/ \E i \in 1..MaxReports : ResolveReport(i)
  \/ \E i \in 1..MaxReports : RejectReport(i)

\* ------------------------------------------------------------------------
\* validateAddress and normalizeAddress (services/utils/validation.js)
\* ------------------------------------------------------------------------

\* the characters of the addresses tried: a space, a tab, letters that spell
\* "road", "rd" and "dr" in either case
AddressChars == {" ", "\t", "r", "o", "a", "d", "R"}

RECURSIVE StringsUpTo(_)
StringsUpTo(n) ==
  IF n = 0 THEN {<<>>}
  ELSE LET shorter == StringsUpTo(n - 1)
       IN shorter \cup {Append(t, c) : t \in {u \in shorter : Len(u) = n - 1},
                                       c \in AddressChars}

AddressStrings == StringsUpTo(MaxAddressLen)

\* \s
IsWhiteSpace(c) == c \in {" ", "\t"}

\* [a-zA-Z]
IsLetter(c) == c \in {"r", "o", "a", "d", "R"}

\* \d
IsDigit(c) == c \in {"0", "1", "2", "3", "4", "5", "6", "7", "8", "9"}

\* String.prototype.trim
RECURSIVE TrimStart(_)
TrimStart(t) ==
  IF t # <<>> /\ IsWhiteSpace(Head(t)) THEN TrimStart(Tail(t)) ELSE t

RECURSIVE TrimEnd(_)
TrimEnd(t) ==
  IF t # <<>> /\ IsWhiteSpace(t[Len(t)]) THEN TrimEnd(SubSeq(t, 1, Len(t) - 1)) ELSE t

Trim(t) == TrimEnd(TrimStart(t))

\* .replace(/\s+/g, ' ')
RECURSIVE CollapsePairs(_)
CollapsePairs(t) ==
  IF t = <<>> THEN <<>>
  ELSE IF Len(t) >= 2 /\ IsWhiteSpace(t[1]) /\ IsWhiteSpace(t[2])
    THEN <<" ">> \o CollapsePairs(SubSeq(t, 3, Len(t)))
  ELSE <<IF IsWhiteSpace(t[1]) THEN " " ELSE t[1]>> \o CollapsePairs(Tail(t))
RECURSIVE CollapseWhiteSpace(_)
CollapseWhiteSpace(t) ==
  IF t = <<>> THEN <<>>
  ELSE IF IsWhiteSpace(Head(t))
    THEN <<" ">> \o CollapseWhiteSpace(TrimStart(t))
  ELSE <<Head(t)>> \o CollapseWhiteSpace(Tail(t))

\* match.toLowerCase()
ToLowerCase(t) == [i \in 1..Len(t) |-> IF t[i] = "R" THEN "r" ELSE t[i]]

\* abbrevMap[match.toLowerCase()] || match, for a match of
\* \b(street|st|avenue|ave|boulevard|blvd|road|rd|drive|dr|lane|ln|court|ct|place|pl)\b:
\* the abbreviations st, ave, blvd, rd, dr, ln, ct, pl are not keys of abbrevMap
Abbreviate(word) ==
  LET w == ToLowerCase(word)
  IN CASE w = <<"s", "t", "r", "e", "e", "t">> -> <<"S", "t">>
       [] w = <<"a", "v", "e", "n", "u", "e">> -> <<"A", "v", "e">>
       [] w = <<"b", "o", "u", "l", "e", "v", "a", "r", "d">> -> <<"B", "l", "v", "d">>
       [] w = <<"r", "o", "a", "d">> -> <<"R", "d">>
       [] w = <<"d", "r", "i", "v", "e">> -> <<"D", "r">>
       [] w = <<"l", "a", "n", "e">> -> <<"L", "n">>
       [] w = <<"c", "o", "u", "r", "t">> -> <<"C", "t">>
       [] w = <<"p", "l", "a", "c", "e">> -> <<"P", "l">>
       [] OTHER -> word

\* the length of the word that starts t: \b...\b delimits a maximal run of
\* word characters
RECURSIVE WordLen(_)
WordLen(t) ==
  IF t = <<>> \/ IsWhiteSpace(Head(t)) THEN 0 ELSE 1 + WordLen(Tail(t))

\* .replace(/\b(street|...|pl)\b/gi, (match) => abbrevMap[match.toLowerCase()] || match)
RECURSIVE ReplaceSuffixWords(_)
ReplaceSuffixWords(t) ==
  IF t = <<>> THEN <<>>
  ELSE IF IsWhiteSpace(Head(t)) THEN <<Head(t)>> \o ReplaceSuffixWords(Tail(t))
  ELSE LET n == WordLen(t)
       IN Abbreviate(SubSeq(t, 1, n)) \o ReplaceSuffixWords(SubSeq(t, n + 1, Len(t)))

\* normalizeAddress(address)
NormalizeAddress(t) == ReplaceSuffixWords(CollapseWhiteSpace(Trim(t)))

NoValidation == [isValid |-> FALSE, errors |-> {}, warnings |-> {"not called"}, normalized |-> <<>>]

\* validateAddress(address), address a string
ValidateAddressString(t) ==
  LET trimmed == Trim(t)
      hasNumber == \E i \in 1..Len(trimmed) : IsDigit(trimmed[i])
      hasStreetName == \E i \in 1..Len(trimmed) : IsLetter(trimmed[i])
      warnings == (IF Len(trimmed) < 10 THEN {"Address appears to be incomplete"} ELSE {})
                    \cup (IF ~hasNumber THEN {"Address should include a street number"} ELSE {})
      errors == IF ~hasStreetName THEN {"Address should include a street name"} ELSE {}
  IN IF Len(trimmed) = 0
       THEN [isValid |-> FALSE, errors |-> {"Address cannot be empty"}, warnings |-> {},
             normalized |-> <<>>]
       ELSE [isValid |-> errors = {}, errors |-> errors, warnings |-> warnings,
             normalized |-> NormalizeAddress(trimmed)]

\* a call of validateAddress(address)
ValidateAddress ==
  /\ validation = NoValidation
  /\ validation' = ValidateAddressString(address)
  /\ UNCHANGED <<address, renormalized, sbaVars, sba504Vars, reportVars, rateVars, coreVars>>

\* the normalized address is given to normalizeAddress again
NormalizeAgain ==
  /\ validation.isValid
  /\ renormalized = <<"?">>
  /\ renormalized' = NormalizeAddress(validation.normalized)
  /\ UNCHANGED <<address, validation, sbaVars, sba504Vars, reportVars, rateVars, coreVars>>

InitValidation ==
  /\ address = <<>>
  /\ validation = NoValidation
  /\ renormalized = <<"?">>

NextValidation ==
  \/ ValidateAddress
  \/ NormalizeAgain

\* ------------------------------------------------------------------------
\* SBAService.assessSBA504Eligibility (services/api/SBAService.js, the
\* evaluator that analyzeProperty calls)
\* ------------------------------------------------------------------------

\* the business information tried; {} takes the default of every field
BusinessInfos ==
  [employeeCount : {0, 501},
   averageAnnualReceipts : {0, 8000001},
   industry : {"other", "manufacturing"},
   businessAge : 0..MaxBusinessAge,
   ownerEquity : {0, 100000},
   projectCost : {0, 1000000},
   ownerOccupancy : {50, 51}]

\* const { employeeCount = 0, ..., ownerOccupancy = 51 } = {}
DefaultBusinessInfo ==
  [employeeCount |-> 0, averageAnnualReceipts |-> 0, industry |-> "other",
   businessAge |-> 0, ownerEquity |-> 0, projectCost |-> 0, ownerOccupancy |-> 51]

\* checkSizeStandards(employees, receipts, industry); a limit of 0 is null
CheckSizeStandards(employees, receipts, industry) ==
  LET standard == IF industry = "manufacturing"
                    THEN [employees |-> 1500, receipts |-> 0]
                    ELSE [employees |-> 500, receipts |-> 8000000]
  IN /\ ~(standard.employees # 0 /\ employees > standard.employees)
     /\ ~(standard.receipts # 0 /\ receipts > standard.receipts)

\* assessSBA504Eligibility(businessInfo)
AssessSBA504Eligibility(info) ==
  LET eligibilityChecks ==
        [sizeStandards |-> CheckSizeStandards(info.employeeCount,
                                               info.averageAnnualReceipts, info.industry),
         businessAge |-> info.businessAge >= 2,
         ownerEquity |-> info.ownerEquity * 10 >= info.projectCost,
         ownerOccupancy |-> info.ownerOccupancy >= 51,
         creditworthiness |-> TRUE,
         jobCreation |-> TRUE]
  IN [assessed |-> TRUE,
      eligible |-> \A c \in DOMAIN eligibilityChecks : eligibilityChecks[c] = TRUE,
      checks |-> eligibilityChecks]

NotAssessed ==
  [assessed |-> FALSE, eligible |-> FALSE,
   checks |-> [c \in {"sizeStandards", "businessAge", "ownerEquity", "ownerOccupancy",
                      "creditworthiness", "jobCreation"} |-> FALSE]]

\* a call of assessSBA504Eligibility(businessInfo)
AssessEligibility ==
  /\ ~sbaAssessment.assessed
  /\ sbaAssessment' = AssessSBA504Eligibility(businessInfo)
  /\ UNCHANGED <<businessInfo, validationVars, sba504Vars, reportVars, rateVars, coreVars>>

InitSba ==
  /\ businessInfo = DefaultBusinessInfo
  /\ sbaAssessment = NotAssessed

NextSba == AssessEligibility

\* ------------------------------------------------------------------------
\* SBA504Service.performEligibilityChecks (the SBA-504 eligibility checker)
\* ------------------------------------------------------------------------

\* the validated business data tried
BusinessDatas ==
  [businessName : {"Acme", ""},
   industry : {"manufacturing", "retail", "other"},
   naicsCode : {"undefined", "31"},
   annualRevenue : {0, 8000001},
   employeeCount : {10, 501},
   netWorth : {1000000, 15000001},
   avgNetIncome : {0, 5000001},
   loanAmount : {0, 75000, 120000, 150000},
   useOfFunds : {"real_estate", "working_capital"},
   ownerOccupancy : BOOLEAN,
   jobsCreated : 0..MaxJobs,
   jobsRetained : 0..MaxJobs]

DefaultBusinessData ==
  [businessName |-> "Acme", industry |-> "other", naicsCode |-> "undefined",
   annualRevenue |-> 0, employeeCount |-> 10, netWorth |-> 1000000, avgNetIncome |-> 0,
   loanAmount |-> 0, useOfFunds |-> "real_estate", ownerOccupancy |-> TRUE,
   jobsCreated |-> 0, jobsRetained |-> 0]

\* checkBasicRequirements(data).eligible
CheckBasicRequirements(data) == data.businessName # ""

\* getSizeStandardForIndustry(industry, naicsCode)
GetSizeStandardForIndustry(industry) ==
  CASE industry = "manufacturing" -> [type |-> "employees", limit |-> 500]
    [] industry = "retail" -> [type |-> "revenue", limit |-> 8000000]
    [] OTHER -> [type |-> "revenue", limit |-> 7500000]

\* checkSizeStandards(data).eligible
CheckSizeStandards504(data) ==
  LET sizeStandard == GetSizeStandardForIndustry(data.industry)
  IN IF sizeStandard.type = "employees"
       THEN ~(data.employeeCount > sizeStandard.limit)
       ELSE ~(data.annualRevenue > sizeStandard.limit)

\* checkFinancialRequirements(data).eligible
CheckFinancialRequirements(data) ==
  ~(data.netWorth > 15000000) /\ ~(data.avgNetIncome > 5000000)

\* checkUseOfFunds(data).eligible
CheckUseOfFunds(data) ==
  data.useOfFunds \in {"real_estate", "equipment", "construction", "renovation",
                       "debt_refinancing"}

\* Math.ceil(a / b) for positive integers
Ceil(a, b) == (a + b - 1) \div b

\* checkJobCreationRequirements(data).eligible
CheckJobCreationRequirements(data) ==
  LET isManufacturing == data.industry = "manufacturing" \/ data.naicsCode = "31"
      jobRatio == IF isManufacturing THEN 120000 ELSE 75000
      requiredJobs == Ceil(data.loanAmount, jobRatio)
      totalJobs == data.jobsCreated + data.jobsRetained
      eligible == ~(data.loanAmount > 0 /\ totalJobs < requiredJobs)
  IN eligible \/ data.loanAmount = 0

\* checkOwnerOccupancyRequirements(data).eligible
CheckOwnerOccupancyRequirements(data) ==
  ~(data.useOfFunds = "real_estate" /\ ~data.ownerOccupancy)

criticalChecks == {"basicRequirements", "sizeStandards", "financialRequirements", "useOfFunds"}

\* performEligibilityChecks(data): the eligible flag of each check
PerformEligibilityChecks(data) ==
  LET checks ==
        [basicRequirements |-> CheckBasicRequirements(data),
         sizeStandards |-> CheckSizeStandards504(data),
         financialRequirements |-> CheckFinancialRequirements(data),
         useOfFunds |-> CheckUseOfFunds(data),
         jobCreation |-> CheckJobCreationRequirements(data),
         ownerOccupancy |-> CheckOwnerOccupancyRequirements(data)]
  IN [performed |-> TRUE,
      checks |-> checks,
      overallEligibility |-> \A c \in criticalChecks : checks[c]]

NotPerformed ==
  [performed |-> FALSE,
   checks |-> [c \in {"basicRequirements", "sizeStandards", "financialRequirements",
                      "useOfFunds", "jobCreation", "ownerOccupancy"} |-> FALSE],
   overallEligibility |-> FALSE]

\* a call of performEligibilityChecks(data)
PerformChecks ==
  /\ ~sbaChecks.performed
  /\ sbaChecks' = PerformEligibilityChecks(businessData)
  /\ UNCHANGED <<businessData, validationVars, sbaVars, reportVars, rateVars, coreVars>>

InitSba504 ==
  /\ businessData = DefaultBusinessData
  /\ sbaChecks = NotPerformed

NextSba504 == PerformChecks

\* ------------------------------------------------------------------------
\* BaseAPIService (services/api/BaseAPIService.js): the rate limit of one
\* service. The requests are made with skipCache and cacheTTL 0, so each of
\* them reaches the network and none touches the cache.
\* ------------------------------------------------------------------------

RATE_LIMIT_DELAY == 1000

\* the step of Date.now() between two events
TickMs == 500

RequestIds == 1..MaxRequests

NotRequested == [pc |-> "notStarted", now |-> 0, fetchAt |-> 0, outcome |-> "none"]

\* if (lastRequest && now - lastRequest < RATE_LIMIT_DELAY)
MustDelay(now_, lastRequest) == lastRequest # 0 /\ now_ - lastRequest < RATE_LIMIT_DELAY

\* const delay = RATE_LIMIT_DELAY - (now - lastRequest)
Delay(now_, lastRequest) == RATE_LIMIT_DELAY - (now_ - lastRequest)

\* makeRequest(endpoint, options) to its first suspension: handleRateLimit
\* either waits on the timer, or records now and the fetch starts
MakeRequest(r) ==
  /\ requests[r].pc = "notStarted"
  /\ \A q \in RequestIds : q < r => requests[q].pc # "notStarted"
  /\ IF MustDelay(clock, rateLimit)
       THEN /\ requests' = [requests EXCEPT ![r] =
                              [pc |-> "delayed", now |-> clock,
                               fetchAt |-> clock + Delay(clock, rateLimit),
                               outcome |-> "none"]]
            /\ UNCHANGED rateLimit
       ELSE /\ rateLimit' = clock
            /\ requests' = [requests EXCEPT ![r] =
                              [pc |-> "fetching", now |-> clock, fetchAt |-> clock,
                               outcome |-> "none"]]
  /\ UNCHANGED <<clock, validationVars, sbaVars, sba504Vars, reportVars, coreVars>>

\* the timer of handleRateLimit fires: this.rateLimit.set(this.baseURL, now)
\* with the now read before the wait, then the fetch starts
TimerFires(r) ==
  /\ requests[r].pc = "delayed"
  /\ clock = requests[r].fetchAt
  /\ rateLimit' = requests[r].now
  /\ requests' = [requests EXCEPT ![r].pc = "fetching"]
  /\ UNCHANGED <<clock, validationVars, sbaVars, sba504Vars, reportVars, coreVars>>

\* the fetch settles: the data is returned, or an APIError or NetworkError
\* is thrown
FetchSettles(r, outcome) ==
  /\ requests[r].pc = "fetching"
  /\ requests' = [requests EXCEPT ![r].pc = "done", ![r].outcome = outcome]
  /\ UNCHANGED <<clock, rateLimit, validationVars, sbaVars, sba504Vars, reportVars, coreVars>>

\* time passes; a timer that is due fires before time passes further
TickClock ==
  /\ clock < (MaxTicks + 1) * TickMs
  /\ \A r \in RequestIds : requests[r].pc = "delayed" => requests[r].fetchAt > clock
  /\ clock' = clock + TickMs
  /\ UNCHANGED <<rateLimit, requests, validationVars, sbaVars, sba504Vars, reportVars,
                 coreVars>>

InitRate ==
  /\ clock = TickMs
  /\ rateLimit = 0
  /\ requests = [r \in RequestIds |-> NotRequested]

NextRate ==
  \/ \E r \in RequestIds : MakeRequest(r)
  \/ \E r \in RequestIds : TimerFires(r)
  \/ \E r \in RequestIds, outcome \in {"data", "APIError", "NetworkError"} :
       FetchSettles(r, outcome)
  \/ TickClock

InitAux == InitValidation /\ InitSba /\ InitSba504 /\ InitReport /\ InitRate

InitCore == InitCache /\ InitOrch /\ InitHook

Init == InitCore /\ InitAux

\* validateAddress on every address of at most MaxAddressLen characters
InitAddresses ==
  /\ InitCore /\ InitSba /\ InitSba504 /\ InitReport /\ InitRate
  /\ address \in AddressStrings
  /\ validation = NoValidation
  /\ renormalized = <<"?">>

\* assessSBA504Eligibility on every business information
InitBusinessInfos ==
  /\ InitCore /\ InitValidation /\ InitSba504 /\ InitReport /\ InitRate
  /\ businessInfo \in BusinessInfos
  /\ sbaAssessment = NotAssessed

\* performEligibilityChecks on every business data
InitBusinessDatas ==
  /\ InitCore /\ InitValidation /\ InitSba /\ InitReport /\ InitRate
  /\ businessData \in BusinessDatas
  /\ sbaChecks = NotPerformed

SpecSba == InitBusinessInfos /\ [][NextSba]_vars

SpecSba504 == InitBusinessDatas /\ [][NextSba504]_vars

SpecValidation == InitAddresses /\ [][NextValidation]_vars


SpecCache == Init /\ [][NextCache]_vars

\* the cache with its sweep timer: cache.startCleanup() is called when the
\* module is loaded and stopCleanup() is never called, so the interval
\* callback keeps being scheduled
SpecCacheSweep == Init /\ [][NextSweep]_vars /\ WF_vars(Cleanup)

SpecOrch == Init /\ [][NextOrch]_vars

\* the orchestrator on the event loop: a continuation that can run does run
SpecOrchFair == Init /\ [][NextOrch]_vars /\ WF_vars(NextOrch)

SpecHook == Init /\ [][NextHook]_vars

SpecRate == Init /\ [][NextRate]_vars

\* ------------------------------------------------------------------------
\* Properties of the cache (SpecCache)
\* ------------------------------------------------------------------------

\* C1: get(k) never returns a stored value at a time when now > expiresAt of
\* that entry: whenever a get returns a value, the entry it read was present
\* with now <= expiresAt and the value returned is the value of that entry.
C1_NoStaleGet ==
  [][\A k \in Keys :
       (last'.op = "get" /\ last'.key = k /\ last'.ret # Null)
         => /\ k \in KeysOf(cache)
            /\ now <= MapGet(cache, k).expiresAt
            /\ last'.ret = MapGet(cache, k).value]_vars

\* a get has read an entry past its expiry and answered with a miss
C1_Witness == last.op = "get" /\ last.found = "expired" /\ last.ret = Null

\* C6: when the cache is at capacity and a key that is not in the store is
\* set, exactly one entry is evicted and it is the least recently used one
\* (the head of the recency order).
C6_EvictsLeastRecentlyUsed ==
  [][\A k \in Keys :
       (last'.op = "set" /\ last'.key = k /\ k \notin KeysOf(cache)
          /\ Len(cache) >= maxSize)
         => /\ KeysOf(cache) \ KeysOf(cache') = {Head(recency)}
            /\ KeysOf(cache') = (KeysOf(cache) \ {Head(recency)}) \cup {k}]_vars

\* a new key has been set into a full cache and an entry was evicted
C6_Witness ==
  /\ last.op = "set" /\ last.found = "absent" /\ last.evicted # NoKey
  /\ last.evicted \notin KeysOf(cache)
  /\ Len(cache) = maxSize

\* C7 (as stated): after set(k, v, ttl), once the clock has advanced by an
\* amount greater than or equal to ttl, get(k) returns a miss.
C7_MissAtOrAfterTtl ==
  [][\A k \in Keys :
       (last'.op = "get" /\ last'.key = k /\ k \in KeysOf(cache)
          /\ now - MapGet(cache, k).createdAt
               >= MapGet(cache, k).expiresAt - MapGet(cache, k).createdAt)
         => last'.ret = Null]_vars

\* C7 (amended): after set(k, v, ttl), once the clock has advanced by more
\* than ttl, get(k) returns a miss; when it has advanced by exactly ttl the
\* value is still returned.
C7_MissAfterTtl ==
  [][\A k \in Keys :
       (last'.op = "get" /\ last'.key = k /\ k \in KeysOf(cache))
         => LET item == MapGet(cache, k)
                ttl == item.expiresAt - item.createdAt
                elapsed == now - item.createdAt
            IN /\ elapsed > ttl => last'.ret = Null
               /\ elapsed = ttl => last'.ret = item.value]_vars

\* a get after more than ttl has elapsed missed and removed the entry
C7_Witness ==
  /\ last.op = "get" /\ last.found = "expired" /\ last.ret = Null
  /\ last.key \notin KeysOf(cache)
  /\ now = MaxTime

\* C8: after set(k, v, ttl) the entry for k is at the most-recently-used
\* position, the last of the store's iteration order, whether k was absent
\* or present before.
C8_SetIsMostRecent ==
  last.op = "set" => cache[Len(cache)].key = last.key

\* C9: a set removes an entry other than the one written only on overflow,
\* when the key written is not in the store and the store is at capacity; and
\* then exactly one entry is removed.
C9_EvictOnlyOnOverflow ==
  [][last'.op = "set"
       => LET removed == (KeysOf(cache) \ KeysOf(cache')) \ {last'.key}
          IN /\ Cardinality(removed) <= 1
             /\ removed # {}
                  => (last'.key \notin KeysOf(cache) /\ Len(cache) >= maxSize)]_vars

\* C10: the number of entries never exceeds maxSize.
C10_SizeBounded == Len(cache) <= maxSize

\* the store is full right after a set that had to evict
C10_Witness == Len(cache) = maxSize /\ last.op = "set" /\ last.evicted # NoKey

\* C11: a get(k) or has(k) on an entry with now > expiresAt returns a miss and
\* deletes that entry: the size drops by one and the other entries keep their
\* content and order; a get or has on an absent key changes nothing.
C11_ExpiredReadDeletesOnlyThatEntry ==
  [][\A k \in Keys :
       (last'.op \in {"get", "has"} /\ last'.key = k)
         => /\ (k \in KeysOf(cache) /\ now > MapGet(cache, k).expiresAt)
                 => /\ last'.ret = Null
                    /\ k \notin KeysOf(cache')
                    /\ Len(cache') = Len(cache) - 1
                    /\ cache' = SelectSeq(cache, LAMBDA e : e.key # k)
            /\ k \notin KeysOf(cache)
                 => /\ last'.ret = Null
                    /\ cache' = cache]_vars

\* a has() has read an expired entry that was not the last of a store of
\* three: it missed, and the two others remain
C11_Witness ==
  /\ last.op = "has" /\ last.found = "expired" /\ last.ret = Null
  /\ last.key \notin KeysOf(cache)
  /\ Len(cache) = 2

\* C12: with the periodic sweep running, every entry with now > expiresAt is
\* eventually removed from the store, whether or not its key is read again;
\* and a cleanup removes exactly the expired entries: the unexpired entries
\* and their relative order are unchanged, and the count returned is the
\* number of entries removed.
C12_SweepRemovesExactlyExpired ==
  /\ \A k \in SweepKeys :
       (k \in KeysOf(cache) /\ now > MapGet(cache, k).expiresAt)
         ~> ~(k \in KeysOf(cache) /\ now > MapGet(cache, k).expiresAt)
  /\ [][last'.op = "cleanup"
         => /\ cache' = SelectSeq(cache, LAMBDA e : ~(now > e.expiresAt))
            /\ recency' = SelectSeq(recency, LAMBDA x : x \in KeysOf(cache'))
            /\ last'.ret = Len(cache) - Len(cache')]_vars

\* a cleanup has removed one entry and left two that had not expired
C12_Witness ==
  /\ last.op = "cleanup" /\ last.ret = 1
  /\ Len(cache) = 2
  /\ \A i \in 1..Len(cache) : now <= cache[i].expiresAt

\* ------------------------------------------------------------------------
\* Properties of the orchestrator (SpecOrch)
\* ------------------------------------------------------------------------

\* C2: whatever subset of the five evaluators fails, the returned analysis has,
\* for every evaluator that succeeded, a 'success' entry with that evaluator's
\* own payload, and for exactly the evaluators that failed an 'error' entry
\* with the failure message; a call that throws has launched no evaluator.
C2_FailureIsolation ==
  /\ opc = "returned" =>
       \A k \in ProgramKeys :
         /\ ev[k].pc = "fulfilled" =>
              /\ result.incentives[k].status = "success"
              /\ result.incentives[k].data = ev[k].payload
              /\ result.incentives[k].data.program = k
         /\ ev[k].pc = "rejected" =>
              /\ result.incentives[k].status = "error"
              /\ result.incentives[k].error = ev[k].msg
         /\ result.incentives[k].status = "error" <=> ev[k].pc = "rejected"
  /\ opc = "threw" => \A k \in ProgramKeys : ev[k].pc = "notStarted"

\* an analysis was returned although some evaluators failed (one of them at
\* the tract lookup) and others succeeded
C2_Witness ==
  /\ opc = "returned"
  /\ ev["opportunityZones"].msg = "Unable to determine census tract"
  /\ \E k \in ProgramKeys : ev[k].msg = "Unable to geocode address"
  /\ \E k \in ProgramKeys : result.incentives[k].status = "success"

\* C3: every returned analysis has exactly the five program keys in its
\* incentives mapping.
C3_FiveKeys ==
  result.kind = "analysis" => DOMAIN result.incentives = ProgramKeys

\* an analysis was returned in which every evaluator failed
C3_Witness ==
  /\ result.kind = "analysis"
  /\ \A k \in ProgramKeys : ev[k].pc = "rejected"
  /\ Cardinality(DOMAIN result.incentives) = 5

\* C4: all five evaluators are launched before the call waits, and the
\* analysis is produced only after every one of them has settled; a failure
\* while others are pending does not produce a result.
C4_WaitsForAll ==
  /\ opc \in {"waiting", "returned"} => \A k \in ProgramKeys : ev[k].pc # "notStarted"
  /\ opc = "returned" => \A k \in ProgramKeys : Settled(ev[k])
  /\ result.kind = "analysis" => opc = "returned"
  /\ (opc = "waiting" /\ \E k \in ProgramKeys : ~Settled(ev[k])) => result.kind = "none"

\* one evaluator has failed while another is still pending, and the call is
\* still waiting
C4_Witness ==
  /\ opc = "waiting"
  /\ \E k \in ProgramKeys : ev[k].pc = "rejected"
  /\ \E k \in ProgramKeys : ~Settled(ev[k])
  /\ result.kind = "none"

\* C13: analyzeProperty called with an address that is not a string, or with
\* the empty string, fails with a ValidationError; no evaluator is invoked
\* and no analysis is produced.
C13_BadAddressThrowsBeforeEvaluators ==
  (opc # "idle" /\ oaddr \in {"notString", "empty"})
    => /\ opc = "threw"
       /\ result.kind = "ValidationError"
       /\ result.incentives = NoIncentives
       /\ \A k \in ProgramKeys : ev[k] = NotStarted

\* the call with the empty string has thrown a ValidationError
C13_Witness ==
  /\ opc = "threw" /\ oaddr = "empty"
  /\ result.kind = "ValidationError"
  /\ \A k \in ProgramKeys : ev[k].pc = "notStarted"

\* C14: in every returned analysis, each program result with status error
\* has available = false and data = null, and each with status success has
\* available equal to the program's field of its data (isOpportunityZone,
\* federalHTC.eligible, nmtcEligible, cpaceAvailable, eligible), false when
\* the field is missing.
C14_AvailableFollowsStatusAndData ==
  result.kind = "analysis" =>
    \A k \in ProgramKeys :
      LET r == result.incentives[k]
          d == r.data
          field ==
            CASE k = "opportunityZones" ->
                   IF "isOpportunityZone" \in DOMAIN d THEN d.isOpportunityZone ELSE FALSE
              [] k = "historicTaxCredits" ->
                   IF "federalHTC" \in DOMAIN d /\ "eligible" \in DOMAIN d.federalHTC
                     THEN d.federalHTC.eligible ELSE FALSE
              [] k = "newMarketsTC" ->
                   IF "nmtcEligible" \in DOMAIN d THEN d.nmtcEligible ELSE FALSE
              [] k = "cpace" ->
                   IF "cpaceAvailable" \in DOMAIN d THEN d.cpaceAvailable ELSE FALSE
              [] k = "sba504" ->
                   IF "eligible" \in DOMAIN d THEN d.eligible ELSE FALSE
      IN /\ r.status \in {"success", "error"}
         /\ r.status = "error" => (r.available = FALSE /\ r.data = NoPayload)
         /\ r.status = "success" => r.available = field

\* an analysis holds a failed program, a successful program that is
\* available and a successful program that is not
C14_Witness ==
  /\ result.kind = "analysis"
  /\ \E k \in ProgramKeys : result.incentives[k].status = "error"
  /\ \E k \in ProgramKeys :
       result.incentives[k].status = "success" /\ result.incentives[k].available
  /\ \E k \in ProgramKeys :
       result.incentives[k].status = "success" /\ ~result.incentives[k].available

\* C15: if one evaluator stalls (a network step of it never returns) while
\* the four others settle, its failure eventually surfaces as an error entry under its own program key
\* and the call eventually returns an analysis with the results of the
\* other evaluators.
C15_StalledEvaluatorSurfaces ==
  \A k \in ProgramKeys :
    (ev[k].pc = "stalled" /\ \A j \in ProgramKeys \ {k} : Settled(ev[j]))
      ~> (/\ opc = "returned"
          /\ result.kind = "analysis"
          /\ result.incentives[k].status = "error")

\* C16: within one analyzeProperty call, geocodeAddress is invoked at most
\* once for the address.
C16_GeocodedAtMostOnce == geocodeCalls <= 1

\* C17: the recommendations of every analysis are sorted by priority weight
\* descending (High 3, Medium 2, Low 1), and within equal priority they keep
\* the enumeration order Opportunity Zones, Historic Tax Credits, New Markets
\* TC, SBA 504, C-PACE; with exactly C-PACE, SBA 504 and Opportunity Zones
\* available the order is Opportunity Zones, SBA 504, C-PACE.
C17_SortedByPriorityStable ==
  result.kind = "analysis" =>
    LET r == result.recommendations
        weight(x) == CASE x.priority = "High" -> 3
                       [] x.priority = "Medium" -> 2
                       [] x.priority = "Low" -> 1
        position(x) == CASE x.program = "Opportunity Zones" -> 1
                         [] x.program = "Historic Tax Credits" -> 2
                         [] x.program = "New Markets Tax Credits" -> 3
                         [] x.program = "SBA 504 Loans" -> 4
                         [] x.program = "C-PACE Financing" -> 5
                         [] OTHER -> 6
        avail == {k \in ProgramKeys : result.incentives[k].available}
    IN /\ \A i, j \in 1..Len(r) :
            i < j => /\ weight(r[i]) >= weight(r[j])
                     /\ weight(r[i]) = weight(r[j]) => position(r[i]) < position(r[j])
       /\ avail = {"cpace", "sba504", "opportunityZones"}
            => [i \in 1..Len(r) |-> r[i].program]
                 = <<"Opportunity Zones", "SBA 504 Loans", "C-PACE Financing">>

\* an analysis with all five programs available: two ties among its
\* recommendations
C17_Witness ==
  /\ result.kind = "analysis"
  /\ \A k \in ProgramKeys : result.incentives[k].available
  /\ Len(result.recommendations) = 5
  /\ result.recommendations[1].program = "Opportunity Zones"
  /\ result.recommendations[2].program = "Historic Tax Credits"

\* C18: the recommendations are a function of the set of available programs
\* only: one recommendation per available program, with that program's
\* fixed priority (Opportunity Zones and Historic Tax Credits High, New
\* Markets TC and SBA 504 Medium, C-PACE Low), and one fallback
\* recommendation exactly when no program is available; the list is never
\* empty.
C18_OnePerAvailableOrFallback ==
  result.kind = "analysis" =>
    LET r == result.recommendations
        avail == {k \in ProgramKeys : result.incentives[k].available}
        name(k) == CASE k = "opportunityZones" -> "Opportunity Zones"
                     [] k = "historicTaxCredits" -> "Historic Tax Credits"
                     [] k = "newMarketsTC" -> "New Markets Tax Credits"
                     [] k = "sba504" -> "SBA 504 Loans"
                     [] k = "cpace" -> "C-PACE Financing"
        fixed(k) == CASE k \in {"opportunityZones", "historicTaxCredits"} -> "High"
                      [] k \in {"newMarketsTC", "sba504"} -> "Medium"
                      [] k = "cpace" -> "Low"
        fallbacks == {i \in 1..Len(r) : r[i].program = "Alternative Financing"}
    IN /\ Len(r) >= 1
       /\ \A k \in avail :
            /\ Cardinality({i \in 1..Len(r) : r[i].program = name(k)}) = 1
            /\ \A i \in 1..Len(r) : r[i].program = name(k) => r[i].priority = fixed(k)
       /\ \A k \in ProgramKeys \ avail : \A i \in 1..Len(r) : r[i].program # name(k)
       /\ Cardinality(fallbacks) = (IF avail = {} THEN 1 ELSE 0)
       /\ Len(r) = Cardinality(avail) + Cardinality(fallbacks)

\* an analysis in which every evaluator succeeded and no program is
\* available: the fallback alone is recommended
C18_Witness ==
  /\ result.kind = "analysis"
  /\ \A k \in ProgramKeys :
       result.incentives[k].status = "success" /\ ~result.incentives[k].available
  /\ Len(result.recommendations) = 1
  /\ result.recommendations[1].program = "Alternative Financing"

\* C19: stacking is a lookup over the available set: Historic Tax Credits
\* and Opportunity Zones both available give an entry of compatibility High;
\* New Markets TC and Historic Tax Credits both available give an entry of
\* compatibility Medium; SBA 504 available with at least one other program
\* gives a High entry, and so does C-PACE; with fewer than two programs
\* available there is no stacking entry.
C19_StackingLookup ==
  result.kind = "analysis" =>
    LET st == result.stackingOpportunities
        avail == {k \in ProgramKeys : result.incentives[k].available}
        has(first, second, compat) ==
          \E i \in 1..Len(st) :
            /\ st[i].programs[1] = first
            /\ second # "any" => st[i].programs = <<first, second>>
            /\ Len(st[i].programs) >= 2
            /\ st[i].compatibility = compat
    IN /\ {"historicTaxCredits", "opportunityZones"} \subseteq avail
            => has("Historic Tax Credits", "Opportunity Zones", "High")
       /\ {"newMarketsTC", "historicTaxCredits"} \subseteq avail
            => has("New Markets Tax Credits", "Historic Tax Credits", "Medium")
       /\ ("sba504" \in avail /\ Cardinality(avail) >= 2) => has("SBA 504", "any", "High")
       /\ ("cpace" \in avail /\ Cardinality(avail) >= 2) => has("C-PACE", "any", "High")
       /\ Cardinality(avail) < 2 => st = <<>>

\* an analysis with exactly Historic Tax Credits, New Markets TC and SBA 504
\* available: a Medium entry for the pair and a High entry led by SBA 504
C19_Witness ==
  /\ result.kind = "analysis"
  /\ {k \in ProgramKeys : result.incentives[k].available}
       = {"historicTaxCredits", "newMarketsTC", "sba504"}
  /\ result.stackingOpportunities
       = << [programs |-> <<"New Markets Tax Credits", "Historic Tax Credits">>,
             compatibility |-> "Medium"],
            [programs |-> <<"SBA 504", "Historic Tax Credits", "New Markets Tax Credits">>,
             compatibility |-> "High"] >>

\* C20: the address validation step of each evaluator fails with a
\* ValidationError, before any geocoding is attempted, when the address
\* contains no digit, and likewise when it contains no alphabetic character.
C20_NoDigitOrNoLetterRejected ==
  (opc # "idle" /\ oaddr \in {"noDigit", "noLetters"})
    => /\ \A k \in ProgramKeys : ev[k].pc = "rejected" /\ ev[k].msg = "Invalid address"
       /\ geocodeCalls = 0

C25_TaxCreditsFromHtcAndNmtcOnly ==
  projections # NoProjections =>
    LET avail == {k \in ProgramKeys : result.incentives[k].available}
        cost == projections.projectCost
        htc == IF "historicTaxCredits" \in avail THEN (cost \div 100) * 20 ELSE 0
        nmtc == IF "newMarketsTC" \in avail THEN (((cost \div 100) * 25) \div 100) * 39 ELSE 0
    IN /\ projections.taxCredits = htc + nmtc
       /\ projections.netProjectCost = cost - projections.taxCredits
       /\ projections.interestSavings
            = (IF "sba504" \in avail THEN 50000 ELSE 0)
                + (IF "cpace" \in avail THEN 25000 ELSE 0)
       /\ (avail = {"historicTaxCredits", "sba504"} /\ cost = 2000000)
            => projections.taxCredits = 400000

\* the projections of an analysis with only Historic Tax Credits and SBA 504
\* available, at the default project cost
C25_Witness ==
  /\ projections # NoProjections
  /\ {k \in ProgramKeys : result.incentives[k].available} = {"historicTaxCredits", "sba504"}
  /\ projections.projectCost = 2000000
  /\ projections.taxCredits = 400000
  /\ projections.interestSavings = 50000
  /\ projections.netProjectCost = 1600000

\* C27: the stackingOpportunities of an analysis are distinct combinations:
\* no two entries name the same set of programs, and every entry names at
\* least two programs.
C27_StackingCombinationsDistinct ==
  result.kind = "analysis" =>
    LET st == result.stackingOpportunities
        named(i) == {st[i].programs[n] : n \in 1..Len(st[i].programs)}
    IN /\ \A i, j \in 1..Len(st) : i # j => named(i) # named(j)
       /\ \A i \in 1..Len(st) : Cardinality(named(i)) >= 2

\* ------------------------------------------------------------------------
\* Properties of address validation (SpecValidation)
\* ------------------------------------------------------------------------

\* C22: normalization is idempotent: for every address accepted by
\* validateAddress, normalizing the normalized form again (trim, collapse
\* whitespace, canonicalize street-suffix words) yields the same string.
C22_NormalizeIdempotent ==
  (validation.isValid /\ renormalized # <<"?">>) => renormalized = validation.normalized

\* an accepted address whose normalized form differs from the trimmed
\* address has been normalized a second time
C22_Witness ==
  /\ validation.isValid
  /\ renormalized # <<"?">>
  /\ validation.normalized # Trim(address)
  /\ \E i \in 1..Len(address) : address[i] = "\t"

\* ------------------------------------------------------------------------
\* Properties of the SBA 504 services (SpecSba, SpecSba504)
\* ------------------------------------------------------------------------

\* C23: in the SBA 504 evaluator used by analyzeProperty, failing only the
\* business-age check (under 2 years) or only the owner-occupancy check
\* (under 51%) while every other check passes does not make the result
\* ineligible.
C23_AgeAndOccupancyInformational ==
  (/\ sbaAssessment.assessed
   /\ \A c \in DOMAIN sbaAssessment.checks \ {"businessAge", "ownerOccupancy"} :
        sbaAssessment.checks[c]
   /\ sbaAssessment.checks.businessAge # sbaAssessment.checks.ownerOccupancy)
    => sbaAssessment.eligible

\* C24: in performEligibilityChecks, overallEligibility is true only if the
\* size-standard, financial, use-of-funds and job-creation checks all pass;
\* a business whose job-creation check fails is not overall eligible.
C24_OverallNeedsJobCreation ==
  (sbaChecks.performed /\ sbaChecks.overallEligibility)
    => /\ sbaChecks.checks.sizeStandards
       /\ sbaChecks.checks.financialRequirements
       /\ sbaChecks.checks.useOfFunds
       /\ sbaChecks.checks.jobCreation

\* ------------------------------------------------------------------------
\* Properties of the rate limit of a service (SpecRate)
\* ------------------------------------------------------------------------

\* C30: the fetches of any two makeRequest calls on one service that reach
\* the network start at least RATE_LIMIT_DELAY apart, whether the calls
\* follow each other, are in flight together or arrive while another waits.
C30_FetchesSpacedByRateLimitDelay ==
  \A q, r \in RequestIds :
    (q # r /\ requests[q].pc \in {"fetching", "done"}
           /\ requests[r].pc \in {"fetching", "done"}
           /\ requests[q].fetchAt <= requests[r].fetchAt)
      => requests[r].fetchAt - requests[q].fetchAt >= RATE_LIMIT_DELAY

\* ------------------------------------------------------------------------
\* Properties of the hook (SpecHook)
\* ------------------------------------------------------------------------

\* C5: once the controller of an in-flight analyzeProperty call has been
\* aborted, nothing of that call is applied when it settles: the analysis,
\* the history and the error stay as they are.
C5_NothingAppliedAfterAbort ==
  [][\A c \in CallIds :
       (hcall[c] = "awaiting" /\ aborted[c] /\ hcall'[c] = "settled")
         => UNCHANGED <<analysis, history, error>>]_vars

\* C26: generateReport invoked when no analysis is available, none passed as
\* argument and none stored by an earlier successful analyzeProperty, fails
\* with a ValidationError, produces no report, and leaves the loading, error
\* and report state of the hook unchanged.
C26_NoAnalysisThrowsValidationError ==
  [][(analysis = 0 /\ GenerateReport(0))
       => /\ thrown' = "ValidationError"
          /\ rcall' = rcall
          /\ UNCHANGED <<loading, error, report>>]_vars

\* a generateReport call without any analysis has thrown, no report call is
\* waiting and there is no report
C26_Witness ==
  /\ thrown = "ValidationError"
  /\ analysis = 0
  /\ rcall = <<>>
  /\ report = 0
  /\ ~loading

\* C28: once every analyzeProperty call of the hook has settled, an analysis
\* held by the hook is the result of the most recently started call: a call
\* started earlier that completes later does not overwrite it.
C28_AnalysisIsOfNewestCall ==
  ((\A c \in CallIds : hcall[c] # "awaiting") /\ analysis # 0)
    => analysis = abortControllerRef

\* C29: loading is true in every state in which an analyzeProperty call that
\* has been neither cancelled nor superseded is still in flight; the
\* completion of an older call does not set it to false while the newest
\* call is running.
C29_LoadingWhileNewestInFlight ==
  \A c \in CallIds :
    (hcall[c] = "awaiting" /\ abortControllerRef = c /\ ~aborted[c]) => loading

====
